---------------------------- MODULE Spec2Model ----------------------------
(***************************************************************************)
(* Model of ssh-username-enum.py (CVE-2018-15473 username enumeration).    *)
(*                                                                         *)
(* main probes the target, patches paramiko's AuthHandler dispatch table,  *)
(* and then calls connect once (single-username mode) or hands one connect *)
(* call per wordlist line to a multiprocessing.Pool (wordlist mode).       *)
(* connect is modelled statement by statement: create_socket, start_client *)
(* and auth_publickey are blocking calls into the socket / paramiko        *)
(* libraries whose results are chosen by the target.                       *)
(***************************************************************************)
EXTENDS Integers, Sequences, FiniteSets, TLC

\* ------------------------------------------------------------------ bounds
MaxN == 2          \* longest wordlist explored
MaxK == 2          \* largest --threads value explored

\* argparse default of --threads
DefaultThreads == 4

\* ------------------------------------------------------ inputs of the run
\* Lines of the wordlist file as the file iterator yields them: a sequence
\* of characters, the newline included.
FileLines ==
    << <<"r", "\n">>,
       <<" ", "b", " ", "\n">>,
       <<"a", "\n">>,
       <<"g", "\n">>,
       <<"t", "\n">> >>

\* A wordlist file with blank and whitespace-only lines.
BlankFileLines ==
    << <<"r", "\n">>,
       <<" ", "\n">>,
       <<" ", "b", " ", "\n">>,
       <<"\n">>,
       <<"t", "\n">> >>

\* The wordlist files explored.
Files == {FileLines, BlankFileLines}

\* Values of the --username option.
UsernameArgs == { <<"r">>, <<" ", "b", " ">> }

Whitespace == {" ", "\n", "\t"}

\* str.strip(): drop leading and trailing whitespace.
RECURSIVE lstrip(_)
lstrip(s) ==
    IF s = <<>> THEN <<>>
    ELSE IF Head(s) \in Whitespace THEN lstrip(Tail(s)) ELSE s

RECURSIVE rstrip(_)
rstrip(s) ==
    IF s = <<>> THEN <<>>
    ELSE IF s[Len(s)] \in Whitespace THEN rstrip(SubSeq(s, 1, Len(s) - 1)) ELSE s

strip(s) == rstrip(lstrip(s))

\* ------------------------------------------------- what the target can do
\* socket.create_connection: a socket, or socket.error.
SocketResults == {"socket", "socket.error"}

\* transport.start_client: returns, raises SSHException (negotiation
\* failed), or re-raises the transport thread's saved exception when the
\* peer drops the connection during the handshake.
HandshakeResults == {"ok", "SSHException", "EOFError"}

\* What arrives after the publickey request has been written:
\*   UserauthFailure  MSG_USERAUTH_FAILURE, dispatched through _handler_table
\*   Eof              the server closed the connection (end of stream)
\*   Reset            the connection was reset (socket.error in the reader)
\*   Timeout          nothing arrives within the transport's auth timeout
\*   UserauthSuccess  MSG_USERAUTH_SUCCESS
Replies == {"UserauthFailure", "Eof", "Reset", "Timeout", "UserauthSuccess"}

\* isinstance(exc, cls) for the exception classes connect names.
IsInstance(exc, cls) ==
    \/ exc = cls
    \/ cls = "SSHException" /\ exc = "AuthenticationException"
    \/ cls = "Exception" /\ exc # "none"

\* ------------------------------------------------------------- variables
VARIABLES
    kwargs,       \* the parsed arguments main receives
    platform,     \* start method of worker processes, MapResult error policy,
                  \* whether the wordlist path can be opened
    pc,           \* position of main
    mainOut,      \* lines main itself printed
    probeOpen,    \* the banner-probe socket of main is open
    mainTable,    \* AuthHandler._handler_table in the main process
    workerTable,  \* AuthHandler._handler_table in the pool's workers
    taskq,        \* chunks of the starmap not yet taken by a worker
    inflight,     \* chunks being run by a worker (head = current call)
    numberLeft,   \* MapResult._number_left
    mapError,     \* MapResult._success is False
    stuck,        \* idle pool workers whose Message.add_boolean was left
                  \* patched by a handler call that raised
    att           \* one record per call of connect

vars == << kwargs, platform, pc, mainOut, probeOpen, mainTable, workerTable,
           taskq, inflight, numberLeft, mapError, stuck, att >>

NewAttempt(user) ==
    [ username |-> user,
      st       |-> "new",        \* new, connected, negotiated, requested,
                                 \* returned, raised, killed
      hs       |-> "none",       \* result of start_client
      reply    |-> "none",       \* what answered the publickey request
      outcome  |-> "none",       \* classification made by connect
      lines    |-> <<>>,         \* lines printed for this call
      sock     |-> FALSE,        \* its connection is open
      table    |-> "none",       \* handler table of the process running it
      addbool  |-> "none",       \* Message.add_boolean in that process:
                                 \* strict (the original) or patched
      oldbool  |-> "none",       \* old_add_boolean saved by the handler
      request  |-> <<>>,         \* the encoded request awaiting its reply
      conns    |-> 0,            \* calls of socket.create_connection
      handshakes |-> 0,          \* calls of start_client
      requests |-> 0 ]           \* calls of auth_publickey

Init ==
    /\ \/ \E u \in UsernameArgs, v \in BOOLEAN :
            /\ kwargs = [ username |-> u, wordlist |-> <<>>, threads |-> DefaultThreads,
                          verbose |-> v ]
            /\ platform = [ start |-> "fork", eager |-> FALSE, readable |-> TRUE ]
       \/ \E f \in Files, n \in 0..MaxN, k \in 1..MaxK, v \in BOOLEAN,
             s \in {"fork", "spawn"}, e \in BOOLEAN, r \in BOOLEAN :
            /\ kwargs = [ username |-> <<>>, wordlist |-> SubSeq(f, 1, n),
                          threads |-> k, verbose |-> v ]
            /\ platform = [ start |-> s, eager |-> e, readable |-> r ]
    /\ pc = "start"
    /\ mainOut = <<>>
    /\ probeOpen = FALSE
    /\ mainTable = "original"
    /\ workerTable = "none"
    /\ taskq = <<>>
    /\ inflight = {}
    /\ numberLeft = 0
    /\ mapError = FALSE
    /\ stuck = 0
    /\ att = <<>>

poolVars == << workerTable, taskq, inflight, numberLeft, mapError, stuck >>

\* ------------------------------------------------------------------ main
\* Mutant of MainCreateSocket: the `if not sock: return` of line 155 is
\* missing, so main goes on after a refused probe.
MainCreateSocket_noReturn ==
    /\ pc = "start"
    /\ \E r \in SocketResults :
        IF r = "socket"
        THEN /\ probeOpen' = TRUE
             /\ UNCHANGED mainOut
        ELSE /\ mainOut' = Append(mainOut, "socket error")
             /\ UNCHANGED probeOpen
    /\ pc' = "probed"
    /\ UNCHANGED << kwargs, platform, mainTable, att >>
    /\ UNCHANGED poolVars

\* main, lines 154-156: the banner probe.
MainCreateSocket ==
    /\ pc = "start"
    /\ \E r \in SocketResults :
        IF r = "socket"
        THEN /\ probeOpen' = TRUE
             /\ pc' = "probed"
             /\ UNCHANGED mainOut
        ELSE /\ mainOut' = Append(mainOut, "socket error")
             /\ pc' = "done"
             /\ UNCHANGED probeOpen
    /\ UNCHANGED << kwargs, platform, mainTable, att >>
    /\ UNCHANGED poolVars

\* main, lines 158-170: read the banner, print the version advisory.
MainBanner ==
    /\ pc = "probed"
    /\ \E matched \in BOOLEAN :
        mainOut' = Append(mainOut, IF matched THEN "version found"
                                              ELSE "version not recognized")
    /\ pc' = "banner"
    /\ UNCHANGED << kwargs, platform, probeOpen, mainTable, att >>
    /\ UNCHANGED poolVars

\* apply_monkey_patch, lines 62-101 (called at line 172).
apply_monkey_patch ==
    /\ pc = "banner"
    /\ mainTable' = "patched"
    /\ pc' = "patchdone"
    /\ UNCHANGED << kwargs, platform, mainOut, probeOpen, att >>
    /\ UNCHANGED poolVars

\* Pool._map_async: chunksize, extra = divmod(len(iterable), len(pool) * 4).
ChunkSize(n, k) ==
    IF n = 0 THEN 0
    ELSE (n \div (k * 4)) + (IF n % (k * 4) # 0 THEN 1 ELSE 0)

\* Pool._get_tasks: the task indices first..n cut into batches of size c.
RECURSIVE GetTasks(_, _, _)
GetTasks(first, n, c) ==
    IF first > n \/ c = 0 THEN <<>>
    ELSE LET last == IF first + c - 1 > n THEN n ELSE first + c - 1
         IN  << [j \in 1..(last - first + 1) |-> first + j - 1] >>
                 \o GetTasks(last + 1, n, c)

\* main, lines 174-176: single-username mode calls connect directly.
MainSingle ==
    /\ pc = "patchdone"
    /\ kwargs.username # <<>>
    /\ att' = << NewAttempt(strip(kwargs.username)) >>
    /\ pc' = "single"
    /\ UNCHANGED << kwargs, platform, mainOut, probeOpen, mainTable >>
    /\ UNCHANGED poolVars

\* main, lines 178-182: create the pool, open the wordlist, submit one
\* connect call per line.  Forked workers inherit the patched table; spawned
\* workers import the module afresh and never run apply_monkey_patch.
\* When Path.open raises, the with statement terminates the pool it has
\* just created and the exception leaves main.
MainPool ==
    /\ pc = "patchdone"
    /\ kwargs.username = <<>>
    /\ workerTable' = IF platform.start = "fork" THEN mainTable ELSE "original"
    /\ inflight' = {}
    /\ mapError' = FALSE
    /\ stuck' = 0
    /\ IF platform.readable
       THEN LET n == Len(kwargs.wordlist)
                batches == GetTasks(1, n, ChunkSize(n, kwargs.threads))
            IN  /\ att' = [i \in 1..n |-> NewAttempt(strip(kwargs.wordlist[i]))]
                /\ taskq' = batches
                /\ numberLeft' = Len(batches)
                /\ pc' = "starmap"
                /\ UNCHANGED probeOpen
       ELSE /\ pc' = "raised"
            /\ probeOpen' = FALSE
            /\ UNCHANGED << att, taskq, numberLeft >>
    /\ UNCHANGED << kwargs, platform, mainOut, mainTable >>

\* An idle pool worker takes the next batch from the task queue: one whose
\* Message.add_boolean was left patched, or one with the original.
TakeChunk ==
    /\ pc = "starmap"
    /\ taskq # <<>>
    /\ Cardinality(inflight) < kwargs.threads
    /\ inflight' = inflight \cup {Head(taskq)}
    /\ taskq' = Tail(taskq)
    /\ \E leftPatched \in BOOLEAN :
        /\ IF leftPatched
           THEN stuck > 0
           ELSE kwargs.threads - Cardinality(inflight) - stuck > 0
        /\ stuck' = IF leftPatched THEN stuck - 1 ELSE stuck
        /\ att' = [att EXCEPT ![Head(Head(taskq))].addbool =
                                 IF leftPatched THEN "patched" ELSE "strict"]
    /\ UNCHANGED << kwargs, platform, pc, mainOut, probeOpen, mainTable,
                    workerTable, numberLeft, mapError >>

\* ---------------------------------------------------------------- connect
\* The handler table of the process that runs the calls of connect.
RunnerTable == IF pc = "single" THEN mainTable ELSE workerTable

\* Call i of connect is the one its process is executing now.
Running(i) ==
    /\ i \in DOMAIN att
    /\ \/ pc = "single"
       \/ pc = "starmap" /\ \E c \in inflight : Head(c) = i

\* mapstar in the worker: when call i returns, the worker goes on with the
\* rest of its batch and reports the batch when it is exhausted; when call
\* i raises, the batch ends there and is reported as failed.
TaskEnds(i, raised) ==
    IF pc = "starmap"
    THEN LET c == CHOOSE b \in inflight : Head(b) = i
         IN  IF raised \/ Len(c) = 1
             THEN /\ inflight' = inflight \ {c}
                  /\ numberLeft' = numberLeft - 1
                  /\ mapError' = (mapError \/ raised)
                  /\ stuck' = IF att'[i].addbool = "patched"
                               THEN stuck + 1 ELSE stuck
             ELSE /\ inflight' = (inflight \ {c}) \cup {Tail(c)}
                  /\ UNCHANGED << numberLeft, mapError, stuck >>
    ELSE UNCHANGED << inflight, numberLeft, mapError, stuck >>

\* Message.add_boolean in the process that starts call i: the main process
\* has the original; a worker has what TakeChunk found or what the previous
\* call of the same batch left.
ProcAddBoolean(i) ==
    IF att[i].addbool # "none" THEN att[i].addbool
    ELSE IF pc = "single" THEN "strict"
    ELSE att[i - 1].addbool

connectFrame == << kwargs, platform, pc, mainOut, probeOpen, mainTable,
                   workerTable, taskq >>

\* Mutant of create_socket: a refused connection is tried again instead of
\* ending the call.
create_socket_retry(i) ==
    /\ Running(i)
    /\ att[i].st = "new"
    /\ \E r \in SocketResults :
        IF r = "socket"
        THEN att' = [att EXCEPT ![i].st = "connected", ![i].sock = TRUE,
                                ![i].table = RunnerTable,
                                ![i].addbool = ProcAddBoolean(i),
                                ![i].conns = @ + 1]
        ELSE att' = [att EXCEPT ![i].table = RunnerTable,
                                ![i].addbool = ProcAddBoolean(i),
                                ![i].conns = @ + 1,
                                ![i].outcome = "ConnectionError",
                                ![i].lines = <<"socket error">>]
    /\ UNCHANGED << inflight, numberLeft, mapError, stuck >>
    /\ UNCHANGED connectFrame

\* connect, lines 131-133, with create_socket, lines 112-115.
create_socket(i) ==
    /\ Running(i)
    /\ att[i].st = "new"
    /\ \E r \in SocketResults :
        IF r = "socket"
        THEN /\ att' = [att EXCEPT ![i].st = "connected", ![i].sock = TRUE,
                                   ![i].table = RunnerTable,
                                   ![i].addbool = ProcAddBoolean(i),
                                   ![i].conns = @ + 1]
             /\ UNCHANGED << inflight, numberLeft, mapError, stuck >>
        ELSE /\ att' = [att EXCEPT ![i].st = "returned",
                                   ![i].table = RunnerTable,
                                   ![i].addbool = ProcAddBoolean(i),
                                   ![i].conns = @ + 1,
                                   ![i].outcome = "ConnectionError",
                                   ![i].lines = Append(@, "socket error")]
             /\ TaskEnds(i, FALSE)
    /\ UNCHANGED connectFrame

\* Mutant of start_client: the `return` of line 140 is missing, connect
\* prints the negotiation failure and goes on to authenticate.
start_client_noReturn(i) ==
    /\ Running(i)
    /\ att[i].st = "connected"
    /\ \E r \in HandshakeResults :
        /\ att[i].addbool = "patched" => r # "ok"
        /\ IF r = "ok"
           THEN /\ att' = [att EXCEPT ![i].st = "negotiated", ![i].hs = r,
                                      ![i].handshakes = @ + 1]
                /\ UNCHANGED << inflight, numberLeft, mapError, stuck >>
           ELSE IF IsInstance(r, "SSHException")
           THEN /\ att' = [att EXCEPT ![i].st = "negotiated", ![i].hs = r,
                                      ![i].handshakes = @ + 1,
                                      ![i].outcome = "NegotiationFailed",
                                      ![i].lines = Append(@, "negotiation failed")]
                /\ UNCHANGED << inflight, numberLeft, mapError, stuck >>
           ELSE /\ att' = [att EXCEPT ![i].st = "raised", ![i].hs = r,
                                      ![i].handshakes = @ + 1,
                                      ![i].sock = FALSE]
                /\ TaskEnds(i, TRUE)
    /\ UNCHANGED connectFrame

\* connect, lines 135-140: the handshake.  A transport whose handshake
\* failed has stopped its reader thread, which closes the socket.  In a
\* process whose Message.add_boolean was left patched the KEXINIT packet
\* loses its boolean field too, and the handshake cannot succeed.
start_client(i) ==
    /\ Running(i)
    /\ att[i].st = "connected"
    /\ \E r \in HandshakeResults :
        /\ att[i].addbool = "patched" => r # "ok"
        /\ IF r = "ok"
           THEN /\ att' = [att EXCEPT ![i].st = "negotiated", ![i].hs = r,
                                      ![i].handshakes = @ + 1]
                /\ UNCHANGED << inflight, numberLeft, mapError, stuck >>
           ELSE IF IsInstance(r, "SSHException")
           THEN /\ att' = [att EXCEPT ![i].st = "returned", ![i].hs = r,
                                      ![i].handshakes = @ + 1,
                                      ![i].sock = FALSE,
                                      ![i].outcome = "NegotiationFailed",
                                      ![i].lines = Append(@, "negotiation failed")]
                /\ TaskEnds(i, FALSE)
           ELSE /\ att' = [att EXCEPT ![i].st = "raised", ![i].hs = r,
                                      ![i].handshakes = @ + 1,
                                      ![i].sock = FALSE]
                /\ TaskEnds(i, TRUE)
    /\ UNCHANGED connectFrame

\* ------------------------------------------------- paramiko.message.Message
\* An encoded message is a sequence of byte tokens.
u32(n) == << "0", "0", "0", ToString(n) >>

add_byte(m, b) == Append(m, b)

add_string(m, s) == m \o u32(Len(s)) \o s

\* Message.add_boolean, the strict encoder: one byte.
add_boolean(m, b) == Append(m, IF b THEN "x01" ELSE "x00")

\* Mutant of patched_add_boolean: the field is encoded as false instead of
\* being left out.
patched_add_boolean_false(m, b) == Append(m, "x00")

\* patched_add_boolean, lines 81-82: adds nothing to the message.
patched_add_boolean(m, b) == m

\* m.add_boolean(b) with Message.add_boolean bound as `enc` says.
AddBoolean(enc, m, b) ==
    IF enc = "patched" THEN patched_add_boolean(m, b) ELSE add_boolean(m, b)

\* The RSA keys paramiko.RSAKey.generate(1024) may return (line 143).
Keys == {"k1", "k2"}

\* The session identifier of the completed key exchange.
SessionId == << "sid" >>

\* AuthHandler._get_session_blob: the data the publickey signature covers.
get_session_blob(enc, user, key) ==
    LET m1 == add_string(<<>>, SessionId)
        m2 == add_byte(m1, "MSG_USERAUTH_REQUEST")
        m3 == add_string(m2, user)
        m4 == add_string(m3, << "ssh-connection" >>)
        m5 == add_string(m4, << "publickey" >>)
        m6 == AddBoolean(enc, m5, TRUE)
        m7 == add_string(m6, << "ssh-rsa" >>)
    IN  add_string(m7, << key >>)

\* PKey.sign_ssh_data: a signature of fixed size that depends on the key
\* and on every byte of the signed data.
sign_ssh_data(key, blob) == << ToString(<< key, blob >>) >>

\* The publickey MSG_USERAUTH_REQUEST built by AuthHandler's
\* _parse_service_accept, the old_msg_service_accept of line 90.
userauth_request(enc, user, key) ==
    LET m1 == add_byte(<<>>, "MSG_USERAUTH_REQUEST")
        m2 == add_string(m1, user)
        m3 == add_string(m2, << "ssh-connection" >>)
        m4 == add_string(m3, << "publickey" >>)
        m5 == AddBoolean(enc, m4, TRUE)
        m6 == add_string(m5, << "ssh-rsa" >>)
        m7 == add_string(m6, << key >>)
    IN  add_string(m7, sign_ssh_data(key, get_session_blob(enc, user, key)))

\* Mutant of service_accept: auth_publickey is called on the transport
\* without start_client having been called.
service_accept_early(i) ==
    /\ Running(i)
    /\ att[i].st \in {"connected", "negotiated"}
    /\ att' = [att EXCEPT ![i].st = "accepting",
                          ![i].requests = @ + 1,
                          ![i].oldbool = IF att[i].table = "patched"
                                         THEN att[i].addbool ELSE @,
                          ![i].addbool = IF att[i].table = "patched"
                                         THEN "patched" ELSE @]
    /\ UNCHANGED << inflight, numberLeft, mapError, stuck >>
    /\ UNCHANGED connectFrame

\* connect, line 143, and patched_msg_service_accept, line 89:
\* auth_publickey is called, the server accepts the ssh-userauth service and
\* the MSG_SERVICE_ACCEPT handler of the table starts.  The patched handler
\* saves Message.add_boolean and replaces it by patched_add_boolean.
service_accept(i) ==
    /\ Running(i)
    /\ att[i].st = "negotiated"
    /\ att' = [att EXCEPT ![i].st = "accepting",
                          ![i].requests = @ + 1,
                          ![i].oldbool = IF att[i].table = "patched"
                                         THEN att[i].addbool ELSE @,
                          ![i].addbool = IF att[i].table = "patched"
                                         THEN "patched" ELSE @]
    /\ UNCHANGED << inflight, numberLeft, mapError, stuck >>
    /\ UNCHANGED connectFrame

\* What writing the request to the transport can do: it is sent, or the
\* packetizer raises EOFError because the peer has closed the connection.
SendResults == {"sent", "SendEof"}

\* Message.add_boolean after line 91 of the patched handler.
Restored(a) == IF a.table = "patched" THEN a.oldbool ELSE a.addbool

\* Mutant of userauth_failure: the patched handler raises the library's
\* AuthenticationException instead of InvalidUsername.
userauth_failure_wrongException(table) == "AuthenticationException"

\* patched_userauth_failure, lines 94-96, against paramiko's own
\* _parse_userauth_failure: what the MSG_USERAUTH_FAILURE entry of the
\* handler table makes auth_publickey raise.
userauth_failure(table) ==
    IF table = "patched" THEN "InvalidUsername" ELSE "AuthenticationException"

\* transport.auth_publickey, line 143: the exception it raises for a reply
\* ("none": it returns).
auth_publickey(table, reply) ==
    CASE reply = "UserauthFailure" -> userauth_failure(table)
      [] reply = "Eof"             -> "AuthenticationException"
      [] reply = "Timeout"         -> "AuthenticationException"
      [] reply = "Reset"           -> "socket.error"
      [] reply = "UserauthSuccess" -> "none"
      [] reply = "SendEof"         -> "AuthenticationException"

\* The transport stays active, and keeps its socket, unless its reader
\* thread ended: on end of stream, on a socket error, or on an exception
\* raised by a handler.
TransportAlive(table, reply) ==
    \/ reply \in {"Timeout", "UserauthSuccess"}
    \/ reply = "UserauthFailure" /\ table # "patched"

\* Mutant of Classify: the not-found line is printed whatever verbose is.
Classify_alwaysPrints(exc, verbose) ==
    IF IsInstance(exc, "AuthenticationException")
    THEN [st |-> "returned", outcome |-> "Valid", lines |-> <<"found">>]
    ELSE IF IsInstance(exc, "InvalidUsername")
    THEN [st |-> "returned", outcome |-> "Invalid", lines |-> <<"not found">>]
    ELSE IF exc = "none"
    THEN [st |-> "returned", outcome |-> "none", lines |-> <<>>]
    ELSE [st |-> "raised", outcome |-> "none", lines |-> <<>>]

\* Mutant of Classify: the second clause is `except Exception`, so a socket
\* error is taken for InvalidUsername.
Classify_catchAll(exc, verbose) ==
    IF IsInstance(exc, "AuthenticationException")
    THEN [st |-> "returned", outcome |-> "Valid", lines |-> <<"found">>]
    ELSE IF IsInstance(exc, "Exception")
    THEN IF ~verbose
         THEN [st |-> "returned", outcome |-> "Invalid", lines |-> <<>>]
         ELSE [st |-> "returned", outcome |-> "Invalid", lines |-> <<"not found">>]
    ELSE [st |-> "returned", outcome |-> "none", lines |-> <<>>]

\* Mutant of Classify: the found line of line 145 is missing.
Classify_silentValid(exc, verbose) ==
    IF IsInstance(exc, "AuthenticationException")
    THEN [st |-> "returned", outcome |-> "Valid", lines |-> <<>>]
    ELSE IF IsInstance(exc, "InvalidUsername")
    THEN IF ~verbose
         THEN [st |-> "returned", outcome |-> "Invalid", lines |-> <<>>]
         ELSE [st |-> "returned", outcome |-> "Invalid", lines |-> <<"not found">>]
    ELSE IF exc = "none"
    THEN [st |-> "returned", outcome |-> "none", lines |-> <<>>]
    ELSE [st |-> "raised", outcome |-> "none", lines |-> <<>>]

\* connect, lines 142-149: the except clauses around auth_publickey.
\* The result: how connect ends, its classification, what it prints.
Classify(exc, verbose) ==
    IF IsInstance(exc, "AuthenticationException")
    THEN [st |-> "returned", outcome |-> "Valid", lines |-> <<"found">>]
    ELSE IF IsInstance(exc, "InvalidUsername")
    THEN IF ~verbose
         THEN [st |-> "returned", outcome |-> "Invalid", lines |-> <<>>]
         ELSE [st |-> "returned", outcome |-> "Invalid", lines |-> <<"not found">>]
    ELSE IF exc = "none"
    THEN [st |-> "returned", outcome |-> "none", lines |-> <<>>]
    ELSE [st |-> "raised", outcome |-> "none", lines |-> <<>>]

\* patched_msg_service_accept, lines 90-92, inside auth_publickey (line
\* 143): the original handler builds the publickey request with
\* Message.add_boolean as it is bound now and writes it; then line 91 puts
\* the saved encoder back.  When the write raises, line 91 is not reached,
\* the transport's reader thread ends and auth_publickey raises in connect
\* (lines 144-149).
send_request(i) ==
    /\ Running(i)
    /\ att[i].st = "accepting"
    /\ \E r \in SendResults, k \in Keys :
        IF r = "sent"
        THEN /\ att' = [att EXCEPT ![i].st = "requested",
                                   ![i].request = userauth_request(
                                        att[i].addbool, att[i].username, k),
                                   ![i].addbool = Restored(att[i])]
             /\ UNCHANGED << inflight, numberLeft, mapError, stuck >>
        ELSE LET c == Classify(auth_publickey(att[i].table, r), kwargs.verbose)
             IN  /\ att' = [att EXCEPT ![i].st = c.st, ![i].reply = r,
                                       ![i].outcome = c.outcome,
                                       ![i].lines = @ \o c.lines,
                                       ![i].sock = FALSE]
                 /\ TaskEnds(i, c.st = "raised")
    /\ UNCHANGED connectFrame

\* connect, lines 143-149: the reply arrives and connect ends.
auth_reply(i) ==
    /\ Running(i)
    /\ att[i].st = "requested"
    /\ \E r \in Replies :
        LET c == Classify(auth_publickey(att[i].table, r), kwargs.verbose)
        IN  /\ att' = [att EXCEPT ![i].st = c.st, ![i].reply = r,
                                  ![i].outcome = c.outcome,
                                  ![i].lines = @ \o c.lines,
                                  ![i].request = <<>>,
                                  ![i].sock = TransportAlive(att[i].table, r)]
            /\ TaskEnds(i, c.st = "raised")
    /\ UNCHANGED connectFrame

\* main, line 176: connect has returned or raised, and so does main.
SingleReturn ==
    /\ pc = "single"
    /\ att[1].st \in {"returned", "raised"}
    /\ pc' = IF att[1].st = "raised" THEN "raised" ELSE "done"
    /\ probeOpen' = FALSE
    /\ att' = [att EXCEPT ![1].sock = FALSE]
    /\ UNCHANGED << kwargs, platform, mainOut, mainTable >>
    /\ UNCHANGED poolVars

\* MapResult._set / MapResult.get: the result is ready when every batch has
\* reported (from Python 3.8) or at the first failed batch (3.6, 3.7).
MapReady ==
    \/ numberLeft = 0
    \/ mapError /\ platform.eager

\* main, lines 178-182: starmap returns or re-raises the worker's
\* exception; leaving the with block terminates the pool.  Calls still
\* running die with their worker, and their sockets with them.
StarmapReturn ==
    /\ pc = "starmap"
    /\ MapReady
    /\ pc' = IF mapError THEN "raised" ELSE "done"
    /\ att' = [i \in DOMAIN att |->
                 IF att[i].st \in {"connected", "negotiated", "accepting",
                                   "requested"}
                    \/ (att[i].st = "new" /\ \E c \in inflight : Head(c) = i)
                 THEN [att[i] EXCEPT !.st = "killed", !.sock = FALSE,
                                     !.request = <<>>]
                 ELSE [att[i] EXCEPT !.sock = FALSE]]
    /\ inflight' = {}
    /\ taskq' = <<>>
    /\ stuck' = 0
    /\ probeOpen' = FALSE
    /\ UNCHANGED << kwargs, platform, mainOut, mainTable, workerTable,
                    numberLeft, mapError >>

Next ==
    \/ MainCreateSocket
    \/ MainBanner
    \/ apply_monkey_patch
    \/ MainSingle
    \/ MainPool
    \/ TakeChunk
    \/ \E i \in DOMAIN att : create_socket(i)
    \/ \E i \in DOMAIN att : start_client(i)
    \/ \E i \in DOMAIN att : service_accept(i)
    \/ \E i \in DOMAIN att : send_request(i)
    \/ \E i \in DOMAIN att : auth_reply(i)
    \/ SingleReturn
    \/ StarmapReturn

Spec == Init /\ [][Next]_vars

\* ----------------------------------------------------------- definitions
Outcomes == {"Valid", "Invalid", "NegotiationFailed", "ConnectionError"}

WordlistMode == kwargs.username = <<>>

MainEnded == pc \in {"done", "raised"}

\* connect left its body: it returned or an exception propagated out of it.
Ended(i) == att[i].st \in {"returned", "raised"}

\* Connections to the target that are open: the banner probe of main and
\* the sockets of the calls of connect.
OpenConnections ==
    (IF probeOpen THEN 1 ELSE 0) + Cardinality({i \in DOMAIN att : att[i].sock})

\* connect, lines 118-149, as one function of what the target did: the
\* result of a call made in a process whose handler table is `table`.
connect(table, sockres, hs, reply, verbose) ==
    IF sockres # "socket"
    THEN [st |-> "returned", outcome |-> "ConnectionError",
          lines |-> <<"socket error">>]
    ELSE IF hs # "ok"
    THEN IF IsInstance(hs, "SSHException")
         THEN [st |-> "returned", outcome |-> "NegotiationFailed",
               lines |-> <<"negotiation failed">>]
         ELSE [st |-> "raised", outcome |-> "none", lines |-> <<>>]
    ELSE Classify(auth_publickey(table, reply), verbose)

\* What create_socket returned to call i, read back from its record.
SockResOf(i) ==
    IF att[i].outcome = "ConnectionError" THEN "socket.error" ELSE "socket"

ResultOf(i) ==
    [st |-> att[i].st, outcome |-> att[i].outcome, lines |-> att[i].lines]

\* ------------------------------------------------------------------ C1
\* C1: when a wordlist run has ended, every candidate taken from the
\* wordlist has exactly one outcome among Valid, Invalid, NegotiationFailed
\* and ConnectionError: none was skipped, none left unclassified.
C1_ExactlyOneOutcome ==
    (WordlistMode /\ MainEnded) =>
        \A i \in DOMAIN att : att[i].outcome \in Outcomes

\* ------------------------------------------------------------------ C2
\* C2: in a wordlist run the number of connections open at the same time,
\* the banner probe and the sockets left by finished attempts included, is
\* at most the configured worker count.
C2_AtMostKOpen ==
    WordlistMode => OpenConnections <= kwargs.threads

\* ------------------------------------------------------------------ C3
\* C3: no error of a candidate's attempt leaves connect or reaches main,
\* and when the run has ended every candidate has been attempted to the end.
C3_FailureNeverAborts ==
    WordlistMode =>
        /\ \A i \in DOMAIN att : att[i].st # "raised"
        /\ pc # "raised"
        /\ MainEnded => \A i \in DOMAIN att : att[i].st = "returned"

\* ------------------------------------------------------------------ C4
\* C4: the verbosity rule.  A Valid outcome has printed exactly the found
\* line; an Invalid outcome the not-found line if and only if verbose is
\* set; NegotiationFailed and ConnectionError exactly their diagnostic line,
\* whatever verbose is.
C4_VerbosityRule ==
    \A i \in DOMAIN att :
        /\ att[i].outcome = "Valid" => att[i].lines = <<"found">>
        /\ att[i].outcome = "Invalid" =>
               att[i].lines = (IF kwargs.verbose THEN <<"not found">> ELSE <<>>)
        /\ att[i].outcome = "NegotiationFailed" =>
               att[i].lines = <<"negotiation failed">>
        /\ att[i].outcome = "ConnectionError" =>
               att[i].lines = <<"socket error">>

\* Witness of C4: a non-verbose run with one candidate found and one not.
C4_Witness ==
    /\ ~kwargs.verbose
    /\ \E i, j \in DOMAIN att :
        /\ att[i].outcome = "Valid" /\ att[i].lines = <<"found">>
        /\ att[j].outcome = "Invalid" /\ att[j].lines = <<>>

\* ------------------------------------------------------------------ C5
\* The handshake of call i completed and the target then dropped the
\* connection (end of stream or reset) in answer to the request.
DroppedAfterRequest(i) ==
    att[i].hs = "ok" /\ att[i].reply \in {"Eof", "Reset"}

\* C5 as stated: a connection dropped right after the request gives the
\* outcome ConnectionError, never Valid and never Invalid.
C5_DropIsConnectionError ==
    \A i \in DOMAIN att :
        DroppedAfterRequest(i) => att[i].outcome = "ConnectionError"

\* C5 amended: a connection dropped right after the request is never
\* classified Invalid and never ConnectionError; a drop seen as end of
\* stream is classified Valid and prints the found line, a reset surfacing
\* as a socket error leaves connect as an exception, unclassified.
C5_DropNeverInvalid ==
    \A i \in DOMAIN att :
        DroppedAfterRequest(i) =>
            /\ att[i].outcome \notin {"Invalid", "ConnectionError"}
            /\ att[i].reply = "Eof" =>
                   att[i].outcome = "Valid" /\ att[i].lines = <<"found">>
            /\ att[i].reply = "Reset" =>
                   /\ att[i].st = "raised"
                   /\ att[i].outcome = "none"
                   /\ att[i].lines = <<>>

\* Witness of C5: both kinds of drop have happened in one run.
C5_Witness ==
    \E i, j \in DOMAIN att :
        /\ DroppedAfterRequest(i) /\ att[i].reply = "Eof"
        /\ DroppedAfterRequest(j) /\ att[j].reply = "Reset"

\* ------------------------------------------------------------------ C6
\* The target refused the connection of the banner probe.
ProbeRefused == mainOut # <<>> /\ mainOut[1] = "socket error"

\* C6 as stated: when the target refuses every connection, each of the N
\* candidates of the wordlist gets a ConnectionError outcome.
C6_RefusedGivesOnePerCandidate ==
    (WordlistMode /\ ProbeRefused /\ MainEnded) =>
        /\ Len(att) = Len(kwargs.wordlist)
        /\ \A i \in DOMAIN att : att[i].outcome = "ConnectionError"

\* C6 amended: when the target refuses the connection of the banner probe,
\* main prints one socket-error line and returns; no candidate is attempted,
\* so no outcome of any kind is produced.
C6_RefusedStopsAtProbe ==
    ProbeRefused =>
        /\ pc = "done"
        /\ mainOut = <<"socket error">>
        /\ att = <<>>
        /\ OpenConnections = 0

\* Witness of C6: a refused probe in a wordlist run with two candidates.
C6_Witness ==
    /\ ProbeRefused
    /\ WordlistMode
    /\ Len(kwargs.wordlist) >= 2
    /\ pc = "done"

\* ------------------------------------------------------------------ C7
\* C7: the call of connect a pool worker makes for the only line of a
\* one-line wordlist ends as the direct call of single-username mode would
\* for the same username and the same behaviour of the target: it runs with
\* the handler table main patched, and it has the classification and the
\* printed line of connect called in the main process.
C7_SingleEqualsWordlist ==
    (WordlistMode /\ Len(att) = 1 /\ Ended(1)) =>
        /\ att[1].table = mainTable
        /\ ResultOf(1) = connect(mainTable, SockResOf(1), att[1].hs,
                                 att[1].reply, kwargs.verbose)

\* ------------------------------------------------------------------ C8
\* C8: a call of connect that has ended, by return or by exception, has no
\* open connection left.
C8_ClosedOnEveryExit ==
    \A i \in DOMAIN att : Ended(i) => ~att[i].sock

\* ------------------------------------------------------------------ C9
\* C9 as stated: every outcome, Invalid and the error outcomes included,
\* has printed exactly one line for its candidate, whatever verbose is.
C9_ExactlyOneLine ==
    \A i \in DOMAIN att :
        att[i].outcome \in Outcomes => Len(att[i].lines) = 1

\* C9 amended: no call of connect prints more than one line, and an outcome
\* has printed no line only if it is Invalid and verbose is off.
C9_AtMostOneLine ==
    \A i \in DOMAIN att :
        /\ Len(att[i].lines) <= 1
        /\ (att[i].outcome \in Outcomes /\ att[i].lines = <<>>) =>
               (att[i].outcome = "Invalid" /\ ~kwargs.verbose)

\* Witness of C9: an Invalid outcome that printed nothing next to an error
\* outcome that printed its line.
C9_Witness ==
    \E i, j \in DOMAIN att :
        /\ att[i].outcome = "Invalid" /\ att[i].lines = <<>>
        /\ att[j].outcome = "NegotiationFailed" /\ Len(att[j].lines) = 1

\* ----------------------------------------------------------------- C10
\* C10 as stated: a MSG_USERAUTH_FAILURE reaching the authentication
\* handler classifies the attempt Valid.
C10_FailureMessageIsValid ==
    \A i \in DOMAIN att :
        (Ended(i) /\ att[i].reply = "UserauthFailure") =>
            att[i].outcome = "Valid"

\* C10 amended: a MSG_USERAUTH_FAILURE reaching the patched handler
\* classifies the attempt Invalid, and a request that ends with the server
\* closing the connection instead classifies it Valid.
C10_FailureMessageIsInvalid ==
    \A i \in DOMAIN att :
        /\ (att[i].reply = "UserauthFailure" /\ att[i].table = "patched") =>
               att[i].outcome = "Invalid"
        /\ att[i].reply = "Eof" => att[i].outcome = "Valid"

\* Witness of C10: one run in which the patched handler received a failure
\* message for one candidate and the server closed on another.
C10_Witness ==
    \E i, j \in DOMAIN att :
        /\ att[i].reply = "UserauthFailure" /\ att[i].table = "patched"
        /\ att[i].outcome = "Invalid"
        /\ att[j].reply = "Eof" /\ att[j].outcome = "Valid"

\* ----------------------------------------------------------------- C11
\* C11: in a run whose wordlist cannot be opened there is no network
\* activity before the failure is surfaced: the banner probe is never
\* opened, nothing read from the target is printed, no attempt is made.
C11_NoNetworkBeforeOpenFails ==
    (WordlistMode /\ ~platform.readable) =>
        /\ ~probeOpen
        /\ mainOut = <<>>
        /\ att = <<>>

\* ----------------------------------------------------------------- C12
\* main has read the wordlist and handed its calls of connect to the pool.
Dispatched ==
    WordlistMode /\ platform.readable /\ pc \in {"starmap", "done", "raised"}
                 /\ workerTable # "none"

\* The usernames handed to connect, in the order of the calls.
Candidates == [i \in DOMAIN att |-> att[i].username]

NonEmpty(u) == u # <<>>

\* The non-empty trimmed lines of a file, in file order.
NonEmptyTrimmed(lines) ==
    SelectSeq([i \in DOMAIN lines |-> strip(lines[i])], NonEmpty)

\* C12: the candidates handed to the attempts are exactly the non-empty
\* trimmed lines of the file, in file order; a blank or whitespace-only
\* line gives no candidate.
C12_CandidatesAreNonEmptyLines ==
    Dispatched => Candidates = NonEmptyTrimmed(kwargs.wordlist)

\* ----------------------------------------------------------------- C13
\* Call i has written a publickey request built under the patched
\* service-accept handler and awaits the reply.
Crafted(i) == att[i].st = "requested" /\ att[i].table = "patched"

\* Position of the has-signature boolean in the conformant request: it
\* follows the message byte, the username, the service and the method.
BooleanPos(user) ==
    Len(add_string(add_string(add_string(
            add_byte(<<>>, "MSG_USERAUTH_REQUEST"), user),
            << "ssh-connection" >>), << "publickey" >>)) + 1

RemoveAt(m, p) == SubSeq(m, 1, p - 1) \o SubSeq(m, p + 1, Len(m))

\* The conformant request for a user and key, its boolean byte taken out.
ConformantCut(user, key) ==
    RemoveAt(userauth_request("strict", user, key), BooleanPos(user))

\* C13 as stated: the crafted request is the conformant encoding of the
\* same request with the has-signature boolean removed and every other
\* field unchanged.
C13_ConformantButBoolean ==
    \A i \in DOMAIN att :
        Crafted(i) =>
            \E k \in Keys : att[i].request = ConformantCut(att[i].username, k)

\* C13 amended: the crafted request is one byte shorter than the conformant
\* one, the has-signature boolean is missing and every field before the
\* signature is unchanged; the signature has its usual size but is made
\* over session data that lack the boolean as well, so it is not the
\* conformant signature.
C13_OneByteShorter ==
    \A i \in DOMAIN att :
        Crafted(i) =>
            \E k \in Keys :
                LET req  == att[i].request
                    conf == userauth_request("strict", att[i].username, k)
                    cut  == ConformantCut(att[i].username, k)
                IN  /\ Len(req) = Len(conf) - 1
                    /\ SubSeq(req, 1, Len(req) - 1) = SubSeq(cut, 1, Len(cut) - 1)
                    /\ << req[Len(req)] >> =
                         sign_ssh_data(k, get_session_blob("patched",
                                                           att[i].username, k))
                    /\ req[Len(req)] # conf[Len(conf)]

\* Witness of C13: a crafted request for a non-empty username is in flight.
C13_Witness ==
    \E i \in DOMAIN att :
        Crafted(i) /\ att[i].username # <<>> /\ att[i].request # <<>>

\* ----------------------------------------------------------------- C14
\* Rank of the positions of connect: Connecting, KeyExchanged, RequestSent
\* (auth_publickey called: handler running, then request written), ended.
Rank(st) ==
    CASE st = "new"        -> 0
      [] st = "connected"  -> 1
      [] st = "negotiated" -> 2
      [] st = "accepting"  -> 3
      [] st = "requested"  -> 4
      [] OTHER             -> 5

\* One step of an attempt from record a to record b keeps the order.
InOrder(a, b) ==
    /\ a.st # b.st => Rank(a.st) < Rank(b.st)
    /\ (a.st # b.st /\ b.st = "negotiated") => (a.st = "connected" /\ a.sock)
    /\ (a.st # b.st /\ b.st = "accepting") =>
           (a.st = "negotiated" /\ a.hs = "ok" /\ a.sock)
    /\ (a.st # b.st /\ b.st = "requested") => a.st = "accepting"
    /\ (a.outcome = "none" /\ b.outcome \in {"Valid", "Invalid"}) =>
           a.st \in {"accepting", "requested"}

\* C14: every step of every attempt goes forward in the order Connecting,
\* KeyExchanged, RequestSent, Classified or Errored: auth_publickey is
\* called only on a socket that create_socket returned and after
\* start_client returned without error, a classification Valid or Invalid is
\* made only after auth_publickey was called, and no position is revisited.
C14_StrictOrder ==
    [][\A i \in (DOMAIN att) \cap (DOMAIN att') : InOrder(att[i], att'[i])]_vars

\* Witness of C14: an attempt went through all positions and was classified.
C14_Witness ==
    \E i \in DOMAIN att :
        /\ att[i].st = "returned" /\ att[i].outcome \in {"Valid", "Invalid"}
        /\ att[i].conns = 1 /\ att[i].handshakes = 1 /\ att[i].requests = 1
        /\ att[i].reply \in Replies

\* ----------------------------------------------------------------- C15
\* C15: an attempt whose connection could not be opened has ended with
\* ConnectionError without a handshake or a request; an attempt whose
\* handshake failed with SSHException has ended with NegotiationFailed
\* without a request.
C15_EarlyFailuresEnd ==
    \A i \in DOMAIN att :
        /\ att[i].outcome = "ConnectionError" =>
               /\ att[i].st = "returned" /\ ~att[i].sock
               /\ att[i].handshakes = 0 /\ att[i].requests = 0
               /\ att[i].hs = "none" /\ att[i].reply = "none"
        /\ att[i].hs = "SSHException" =>
               /\ att[i].st = "returned"
               /\ att[i].outcome = "NegotiationFailed"
               /\ att[i].requests = 0 /\ att[i].reply = "none"
               /\ att[i].request = <<>>

\* Witness of C15: both early failures in one finished run.
C15_Witness ==
    /\ MainEnded
    /\ \E i, j \in DOMAIN att :
        /\ att[i].outcome = "ConnectionError"
        /\ att[j].outcome = "NegotiationFailed"

\* ----------------------------------------------------------------- C16
\* C16: no retries.  For every candidate at most one connection is opened,
\* one handshake performed and one request sent, and an attempt that ended
\* with ConnectionError or NegotiationFailed opened exactly the one
\* connection it failed on or with.
C16_NoRetries ==
    \A i \in DOMAIN att :
        /\ att[i].conns <= 1
        /\ att[i].handshakes <= 1
        /\ att[i].requests <= 1
        /\ att[i].outcome \in {"ConnectionError", "NegotiationFailed"} =>
               (att[i].conns = 1 /\ att[i].st = "returned")

\* Witness of C16: a run has ended with a candidate whose connection was
\* refused once and never tried again.
C16_Witness ==
    /\ MainEnded
    /\ \E i \in DOMAIN att :
        att[i].outcome = "ConnectionError" /\ att[i].conns = 1

\* ----------------------------------------------------------------- C17
\* What call i observed of the transport and of the server.
Observed(i) == << SockResOf(i), att[i].hs, att[i].reply >>

\* The classification connect gives to an observation in single-username
\* mode, where it runs in the process apply_monkey_patch has patched; the
\* verbose setting does not enter it.
ClassOf(obs) == connect("patched", obs[1], obs[2], obs[3], FALSE).outcome

\* C17: the classification of an attempt is a function of its observation
\* alone.  Single-username runs reach every observation and classify it
\* with ClassOf, so the claim says that every ended attempt of every run,
\* in any worker, for any username, under any verbose setting and after any
\* earlier attempts, has the classification ClassOf gives to what it
\* observed, and that two attempts of a run with the same observation are
\* classified alike.
C17_ClassOfObservationAlone ==
    /\ \A v \in BOOLEAN, s \in SocketResults, h \in HandshakeResults,
          r \in Replies :
           connect("patched", s, h, r, v).outcome = ClassOf(<<s, h, r>>)
    /\ \A i \in DOMAIN att :
        (Ended(i) /\ (att[i].hs = "ok" => att[i].reply \in Replies)) =>
            att[i].outcome = ClassOf(Observed(i))
    /\ \A i, j \in DOMAIN att :
        (Ended(i) /\ Ended(j) /\ Observed(i) = Observed(j)) =>
            att[i].outcome = att[j].outcome

\* ----------------------------------------------------------------- C18
\* C18: wherever no call of patched_msg_service_accept is in progress,
\* Message.add_boolean is the original strict encoder: in the process of
\* every call of connect and in every idle worker.
C18_StrictOutsideHandler ==
    /\ stuck = 0
    /\ \A i \in DOMAIN att :
        att[i].st # "accepting" => att[i].addbool # "patched"

\* ----------------------------------------------------------------- C19
\* C19: the handler table is patched before the first attempt starts, and
\* no call of connect calls auth_publickey in a process whose
\* MSG_SERVICE_ACCEPT and MSG_USERAUTH_FAILURE handlers are the originals.
C19_PatchedWhereAttemptsRun ==
    /\ att # <<>> => mainTable = "patched"
    /\ \A i \in DOMAIN att : att[i].requests > 0 => att[i].table = "patched"

\* ----------------------------------------------------------------- C20
\* C20: when main has ended a wordlist run, every candidate's attempt has
\* reached a terminal state: none is unstarted, none was still in progress
\* when the pool was torn down.
C20_EndsAfterAllAttempts ==
    (Dispatched /\ MainEnded) => \A i \in DOMAIN att : Ended(i)

====
